---- MODULE Spec2Model ----
(***************************************************************************)
(* A model of the milimg container tools: encode.py (encode_milimg and     *)
(* its helpers) and decode.py (parse_milimg_container,                     *)
(* decode_av1_frame_with_opencv, decode_milimg).                           *)
(*                                                                         *)
(* Bytes are the integers 0..255 and a file is a sequence of bytes.  The   *)
(* AV1 codec, OpenCV and the file system are the environment: what they    *)
(* return (or whether they raise) is an input of the action that calls     *)
(* them.                                                                   *)
(***************************************************************************)
EXTENDS Integers, Sequences, FiniteSets, TLC

VARIABLES
    phase,          \* position of the scenario
    rec,            \* the record handed to the assembly step
    img,            \* encode_milimg: the image after .convert("RGBA")
    enc,            \* encode_milimg: how the call ended and what it did
    fs_exists,      \* whether a file exists at the .milimg path
    fs_bytes,       \* its contents
    parse_outcome,  \* parse_milimg_container: "returned" or the error raised
    header,         \* the MilimgHeader it returned
    dec,            \* decode_milimg: how the last call ended
    tmp_files,      \* temporary .ivf files still on disk
    caps_open,      \* cv2.VideoCapture objects not released
    calls           \* decode_milimg calls made so far

vars == <<phase, rec, img, enc, fs_exists, fs_bytes, parse_outcome, header,
          dec, tmp_files, caps_open, calls>>

----------------------------------------------------------------------------
(* Bounds of the model.                                                    *)

MaxColorLen == 5
MaxAlphaLen == 3
MaxCodecLen == 2
MaxSide == 2
MaxCalls == 2

(* Program constants.                                                      *)

IvfHeaderLen == 44

\* b"Milimg00"
Magic == <<77, 105, 108, 105, 109, 103, 48, 48>>

----------------------------------------------------------------------------
(* struct.pack / struct.unpack, big-endian unsigned.                       *)

RECURSIVE PackBE(_, _)
\* struct.pack(">I", n) is PackBE(n, 4); struct.pack(">Q", n) is PackBE(n, 8)
PackBE(n, k) == IF k = 0 THEN <<>> ELSE PackBE(n \div 256, k - 1) \o <<n % 256>>

RECURSIVE UnpackBE(_)
\* struct.unpack(">I", b)[0] / struct.unpack(">Q", b)[0] on a full-length b
UnpackBE(b) ==
    IF Len(b) = 0 THEN 0
    ELSE UnpackBE(SubSeq(b, 1, Len(b) - 1)) * 256 + b[Len(b)]

Min(a, b) == IF a < b THEN a ELSE b

\* f.read(n) at offset pos: at most n bytes, fewer at the end of the file
Read(bytes, pos, n) == SubSeq(bytes, pos + 1, Min(pos + n, Len(bytes)))

RECURSIVE Concat(_)
Concat(chunks) ==
    IF Len(chunks) = 0 THEN <<>> ELSE Head(chunks) \o Concat(Tail(chunks))

----------------------------------------------------------------------------
(* encode.py                                                               *)

has_transparency_below_254(image) ==
    IF image.mode = "P" THEN image.info_transparency
    ELSE IF image.mode = "RGBA"
         THEN \E i \in 1..Len(image.alpha) : image.alpha[i] < 254
         ELSE FALSE

\* lines 8-17; getdata() is the alpha channel, pixel by pixel
has_transparency(image) ==
    IF image.mode = "P" THEN image.info_transparency
    ELSE IF image.mode = "RGBA"
         THEN \E i \in 1..Len(image.alpha) : image.alpha[i] < 255
         ELSE FALSE

\* encode_to_av1 returns what the muxer wrote less the first 44 bytes
encode_to_av1(ivf_data) == SubSeq(ivf_data, IvfHeaderLen + 1, Len(ivf_data))

WritesAlphaAlways(r) == TRUE

\* the test at encode.py line 112
WritesAlpha(r) == r.version = 1

HeaderChunksSwapped(r) ==
    << Magic,
       PackBE(r.version, 4),
       PackBE(r.height, 4),
       PackBE(r.width, 4),
       PackBE(Len(r.color_payload), 8),
       r.color_payload >>

\* the f.write calls of lines 102-110, in order
HeaderChunks(r) ==
    << Magic,
       PackBE(r.version, 4),
       PackBE(r.width, 4),
       PackBE(r.height, 4),
       PackBE(Len(r.color_payload), 8),
       r.color_payload >>

\* every f.write call of the assembly step, in order
WriteChunks(r) ==
    HeaderChunks(r) \o
    (IF WritesAlpha(r)
       THEN << PackBE(Len(r.alpha_payload), 8), r.alpha_payload >>
       ELSE <<>>)

\* the file the assembly step leaves when its first n writes succeed
Assemble(r, n) == Concat(SubSeq(WriteChunks(r), 1, n))

Serialize(r) == Assemble(r, Len(WriteChunks(r)))

----------------------------------------------------------------------------
(* decode.py: parse_milimg_container                                       *)

NoHeader ==
    [version |-> 0, width |-> 0, height |-> 0, color_payload |-> <<>>,
     alpha_present |-> FALSE, alpha_payload |-> <<>>]

Raise(kind) == [outcome |-> kind, header |-> NoHeader]

MagicOkPrefix(bytes) ==
    Read(bytes, 0, 8) = SubSeq(Magic, 1, Len(Read(bytes, 0, 8)))

MagicOk(bytes) == Read(bytes, 0, 8) = Magic

VersionSupportedLowByte(version) == version % 256 \in {0, 1}

VersionSupported(version) == version \in {0, 1}

ReadsAlphaNever(version) == FALSE

\* the test at decode.py line 38
ReadsAlpha(version) == version = 1

\* lines 37-48: the optional alpha section, then the MilimgHeader
ParseAlpha(bytes, version, width, height, color_payload, pos) ==
    IF ReadsAlpha(version)
    THEN LET ab == Read(bytes, pos, 8) IN
         IF Len(ab) # 8 THEN Raise("struct.error")
         ELSE LET alpha_payload_size == UnpackBE(ab) IN
              [outcome |-> "returned",
               header |-> [version |-> version, width |-> width,
                           height |-> height,
                           color_payload |-> color_payload,
                           alpha_present |-> TRUE,
                           alpha_payload |->
                               Read(bytes, pos + 8, alpha_payload_size)]]
    ELSE [outcome |-> "returned",
          header |-> [version |-> version, width |-> width,
                      height |-> height, color_payload |-> color_payload,
                      alpha_present |-> FALSE, alpha_payload |-> <<>>]]

\* lines 34-35: width, height, color size, color payload
ParseBody(bytes, version) ==
    LET hb == Read(bytes, 12, 16) IN
    IF Len(hb) # 16 THEN Raise("struct.error")
    ELSE LET width == UnpackBE(SubSeq(hb, 1, 4))
             height == UnpackBE(SubSeq(hb, 5, 8))
             color_payload_size == UnpackBE(SubSeq(hb, 9, 16))
             color_payload == Read(bytes, 28, color_payload_size)
         IN ParseAlpha(bytes, version, width, height, color_payload,
                       28 + Len(color_payload))

parse_milimg_container(bytes) ==
    IF ~MagicOk(bytes) THEN Raise("invalid magic number")
    ELSE LET vb == Read(bytes, 8, 4) IN
         IF Len(vb) # 4 THEN Raise("struct.error")
         ELSE LET version == UnpackBE(vb) IN
              IF ~VersionSupported(version) THEN Raise("unsupported version")
              ELSE ParseBody(bytes, version)

----------------------------------------------------------------------------
(* decode.py: decode_av1_frame_with_opencv and decode_milimg               *)

\* What the environment does with one temporary file: writing the payload
\* to it fails (lines 61-63: the file exists by then, and OSError leaves
\* the function before the try), or the file is written and then the
\* VideoCapture constructor raises, the capture does not open, cap.read()
\* fails, or a frame of some size comes back.
FrameSizes == {<<1, 1>>, <<2, 1>>}

CvOutcomes ==
    {[kind |-> k, size |-> <<0, 0>>] :
        k \in {"tmp_write_fails", "ctor_raises", "not_opened", "read_fails"}}
    \cup {[kind |-> "frame", size |-> s] : s \in FrameSizes}

\* os.remove(temp_filename) sits in the finally clause (lines 79-82) of
\* the try that starts at line 67, after the temporary file is written
TmpRemoved(cv) == cv.kind # "tmp_write_fails"

\* "if cap: cap.release()" in the finally clause; cap stays None only when
\* the constructor raised
CapReleased(cv) == cv.kind \notin {"tmp_write_fails", "ctor_raises"}

decode_av1_frame_with_opencv(payload, cv) ==
    IF Len(payload) = 0
    THEN [frame |-> FALSE, size |-> <<0, 0>>, called |-> TRUE,
          raised |-> FALSE,
          tmp_created |-> FALSE, tmp_left |-> 0, caps_left |-> 0]
    ELSE LET cap_created == cv.kind \notin {"tmp_write_fails", "ctor_raises"}
         IN
         [frame |-> cv.kind = "frame",
          raised |-> cv.kind = "tmp_write_fails",
          size |-> IF cv.kind = "frame" THEN cv.size ELSE <<0, 0>>,
          called |-> TRUE,
          tmp_created |-> TRUE,
          tmp_left |-> IF TmpRemoved(cv) THEN 0 ELSE 1,
          caps_left |-> IF cap_created /\ ~CapReleased(cv) THEN 1 ELSE 0]

NotCalled ==
    [frame |-> FALSE, size |-> <<0, 0>>, called |-> FALSE,
     raised |-> FALSE,
     tmp_created |-> FALSE, tmp_left |-> 0, caps_left |-> 0]

DecResult(outcome, alpha, size, c, a) ==
    [outcome |-> outcome, alpha |-> alpha, size |-> size,
     color_called |-> c.called, alpha_called |-> a.called,
     color_frame |-> c.frame, alpha_frame |-> a.frame,
     tmp_made |-> (IF c.tmp_created THEN 1 ELSE 0)
                  + (IF a.tmp_created THEN 1 ELSE 0),
     tmp_left |-> c.tmp_left + a.tmp_left,
     caps_left |-> c.caps_left + a.caps_left]

\* lines 101-115, once the color frame is there
DecodeAlpha(hdr, c, cvAlpha) ==
    IF hdr.version = 1 /\ hdr.alpha_present /\ Len(hdr.alpha_payload) > 0
    THEN LET a == decode_av1_frame_with_opencv(hdr.alpha_payload, cvAlpha) IN
         IF a.raised
         THEN DecResult("OSError", "none", <<0, 0>>, c, a)
         ELSE IF a.frame
         THEN IF a.size = c.size
              THEN DecResult("image", "decoded", c.size, c, a)
              \* Image.putalpha raises ValueError("images do not match")
              ELSE DecResult("ValueError", "none", <<0, 0>>, c, a)
         ELSE DecResult("image", "opaque", c.size, c, a)
    ELSE DecResult("image", "opaque", c.size, c, NotCalled)

decode_milimg(exists, bytes, cvColor, cvAlpha) ==
    IF ~exists
    THEN DecResult("FileNotFoundError", "none", <<0, 0>>, NotCalled, NotCalled)
    ELSE LET p == parse_milimg_container(bytes) IN
         IF p.outcome # "returned"
         THEN DecResult(p.outcome, "none", <<0, 0>>, NotCalled, NotCalled)
         ELSE LET c == decode_av1_frame_with_opencv(p.header.color_payload,
                                                     cvColor) IN
              IF c.raised
              THEN DecResult("OSError", "none", <<0, 0>>, c, NotCalled)
              ELSE IF ~c.frame
              THEN DecResult("None", "none", <<0, 0>>, c, NotCalled)
              ELSE DecodeAlpha(p.header, c, cvAlpha)

----------------------------------------------------------------------------
(* The inputs.                                                             *)

Payload(seed, n) == [i \in 1..n |-> (seed + 37 * i) % 256]

ColorPayloads == {Payload(s, n) : s \in {65, 200}, n \in 0..MaxColorLen}

AlphaPayloads == {Payload(s, n) : s \in {9}, n \in 0..MaxAlphaLen}

\* width and height of a record; 2147483647 is the largest value TLC's
\* integers hold
Dims == {<<0, 0>>, <<4, 2>>, <<258, 65536>>, <<2147483647, 1>>}

Records ==
    {[version |-> 0, width |-> d[1], height |-> d[2], color_payload |-> c,
      alpha_present |-> FALSE, alpha_payload |-> <<>>] :
        d \in Dims, c \in ColorPayloads}
    \cup
    {[version |-> 1, width |-> d[1], height |-> d[2], color_payload |-> c,
      alpha_present |-> TRUE, alpha_payload |-> a] :
        d \in Dims, c \in ColorPayloads, a \in AlphaPayloads}

\* what the muxer wrote: 44 bytes of IVF headers, then the AV1 data
IvfData(body) == [i \in 1..IvfHeaderLen |-> i] \o body

ImgSizes ==
    {s \in (1..MaxSide) \X (1..MaxSide) : s[1] * s[2] <= MaxSide}

\* alpha values on either side of the test "p < 255" of line 16
AlphaVals == {254, 255}

\* Image.open(input_path).convert("RGBA"): an RGBA image, which carries no
\* "transparency" entry in its info (the conversion turns one into alpha)
Images ==
    UNION {{[mode |-> "RGBA", width |-> s[1], height |-> s[2], alpha |-> a,
             info_transparency |-> FALSE] :
               a \in [1..(s[1] * s[2]) -> AlphaVals]} :
           s \in ImgSizes}

\* what the codec hands back for the color and the alpha frame
CodecColor == {Payload(65, n) : n \in 0..MaxCodecLen}

CodecAlpha == {Payload(9, n) : n \in 0..MaxCodecLen}

NoImage ==
    [mode |-> "none", width |-> 0, height |-> 0, alpha |-> <<>>,
     info_transparency |-> FALSE]

\* where the environment makes encode_milimg fail: loading the image, a
\* codec call, open(output_path, "wb"), the f.write call after n that
\* returned, or the close of the with block after all of them returned.
\* The file object is buffered, so in the last two cases k, the number of
\* bytes that reached the file, need not end at a chunk.
Faults ==
    {[stage |-> s, n |-> 0, k |-> 0] :
        s \in {"none", "load", "color", "alpha", "open"}}
    \cup {[stage |-> "write", n |-> n, k |-> k] :
              n \in 0..7, k \in 0..(35 + 2 * MaxCodecLen)}
    \cup {[stage |-> "close", n |-> 0, k |-> k] :
              k \in 0..(35 + 2 * MaxCodecLen)}

BadVersions == {2, 256, 2147483647}

----------------------------------------------------------------------------
(* encode.py: encode_milimg                                                *)

EncIdle ==
    [status |-> "idle", failed_at |-> "none", version |-> 0,
     probed |-> FALSE, use_alpha |-> FALSE, alpha_encoded |-> FALSE,
     opened |-> FALSE, writes |-> 0]

\* the call failed before open(output_path, "wb"): the path is untouched
EncFailedEarly(at, version, probed, use_alpha, alpha_encoded) ==
    [enc |-> [status |-> "failed", failed_at |-> at, version |-> version,
              probed |-> probed, use_alpha |-> use_alpha,
              alpha_encoded |-> alpha_encoded,
              opened |-> FALSE, writes |-> 0],
     touched |-> FALSE, bytes |-> <<>>]

\* lines 98-117 for the record r: open(output_path, "wb") creates or
\* truncates the file.  The f.write call after n that returned may raise:
\* the file then holds the first k bytes of the stream, where k stops
\* short of the end of the chunk being written (what the earlier calls
\* wrote may still be in the buffer of the file object, so k may also be
\* less than their length).  When every f.write returned, the close of the
\* with block flushes the buffer, and if that raises the file holds the k
\* bytes that got through.
AssembleFile(r, use_alpha, fault) ==
    IF fault.stage = "open"
    THEN EncFailedEarly("open", r.version, TRUE, use_alpha, r.alpha_present)
    ELSE LET total == Len(WriteChunks(r))
             failing == /\ fault.stage = "write"
                        /\ fault.n < total
                        /\ \/ fault.k <= Len(Assemble(r, fault.n))
                           \/ fault.k < Len(Assemble(r, fault.n + 1))
             closing == fault.stage = "close" /\ fault.k < Len(Serialize(r))
             n == IF failing THEN fault.n ELSE total
         IN [enc |-> [status |-> IF failing \/ closing THEN "failed" ELSE "ok",
                      failed_at |-> IF failing THEN "write"
                                    ELSE IF closing THEN "close" ELSE "none",
                      version |-> r.version, probed |-> TRUE,
                      use_alpha |-> use_alpha,
                      alpha_encoded |-> r.alpha_present,
                      opened |-> TRUE, writes |-> n],
             touched |-> TRUE,
             bytes |-> IF failing \/ closing
                       THEN SubSeq(Serialize(r), 1, fault.k)
                       ELSE Serialize(r)]

encode_milimg(image, color_ivf, alpha_ivf, fault) ==
    IF fault.stage = "load"
    THEN EncFailedEarly("load", 0, FALSE, FALSE, FALSE)
    ELSE LET use_alpha == has_transparency(image)
             version == IF use_alpha THEN 1 ELSE 0
         IN IF fault.stage = "color"
            THEN EncFailedEarly("color", version, TRUE, use_alpha, FALSE)
            ELSE IF version = 1 /\ fault.stage = "alpha"
            THEN EncFailedEarly("alpha", version, TRUE, use_alpha, FALSE)
            ELSE AssembleFile(
                   [version |-> version, width |-> image.width,
                    height |-> image.height,
                    color_payload |-> encode_to_av1(color_ivf),
                    alpha_present |-> version = 1,
                    alpha_payload |-> IF version = 1
                                        THEN encode_to_av1(alpha_ivf)
                                        ELSE <<>>],
                   use_alpha, fault)

\* the record encode_milimg had in hand when it reached the assembly step
EncodedRecord(image, color_ivf, alpha_ivf) ==
    LET version == IF has_transparency(image) THEN 1 ELSE 0 IN
    [version |-> version, width |-> image.width, height |-> image.height,
     color_payload |-> encode_to_av1(color_ivf),
     alpha_present |-> version = 1,
     alpha_payload |-> IF version = 1 THEN encode_to_av1(alpha_ivf) ELSE <<>>]

----------------------------------------------------------------------------
(* The state machine.                                                      *)

DecIdle ==
    [outcome |-> "idle", alpha |-> "none", size |-> <<0, 0>>,
     color_called |-> FALSE, alpha_called |-> FALSE,
     color_frame |-> FALSE, alpha_frame |-> FALSE,
     tmp_made |-> 0, tmp_left |-> 0, caps_left |-> 0]

Quiet ==
    /\ img = NoImage
    /\ enc = EncIdle
    /\ fs_exists = FALSE
    /\ fs_bytes = <<>>
    /\ parse_outcome = "none"
    /\ header = NoHeader
    /\ dec = DecIdle
    /\ tmp_files = 0
    /\ caps_open = 0
    /\ calls = 0

\* the tools before any call, no file at the output path
Init ==
    /\ phase = "start"
    /\ rec = NoHeader
    /\ Quiet

\* the container codec alone: a valid record about to be written
InitCodec ==
    /\ phase = "record"
    /\ rec \in Records
    /\ Quiet

\* decode_milimg alone: the container of a valid record about to be stored
InitDecode ==
    /\ phase = "container"
    /\ rec \in Records
    /\ Quiet

\* one call of encode_milimg(input_path, output_path, quality)
EncodeMilimg ==
    /\ phase = "start"
    /\ \E image \in Images, c \in CodecColor, a \in CodecAlpha,
          fault \in Faults :
          LET r == encode_milimg(image, IvfData(c), IvfData(a), fault) IN
          /\ img' = IF fault.stage = "load" THEN NoImage ELSE image
          /\ enc' = r.enc
          /\ rec' = IF r.enc.failed_at \in {"load", "color", "alpha"}
                      THEN NoHeader
                      ELSE EncodedRecord(image, IvfData(c), IvfData(a))
          /\ fs_exists' = (fs_exists \/ r.touched)
          /\ fs_bytes' = IF r.touched THEN r.bytes ELSE fs_bytes
    /\ phase' = "encoded"
    /\ UNCHANGED <<parse_outcome, header, dec, tmp_files, caps_open, calls>>

\* the assembly step of encode_milimg on the record rec, no write failing
AssembleRecord ==
    /\ phase \in {"record", "container"}
    /\ fs_exists' = TRUE
    /\ fs_bytes' = Serialize(rec)
    /\ phase' = IF phase = "record" THEN "written" ELSE "stored"
    /\ UNCHANGED <<rec, img, enc, parse_outcome, header, dec, tmp_files,
                   caps_open, calls>>

CorruptMagic(bytes, i) ==
    IF i = 0 THEN bytes ELSE [bytes EXCEPT ![i] = (bytes[i] + 1) % 256]

SetVersionField(bytes, v) ==
    SubSeq(bytes, 1, 8) \o PackBE(v, 4) \o SubSeq(bytes, 13, Len(bytes))

\* the file the reader is given: the one written (i = 0, k its length), or
\* one with a byte of the magic changed, the version field overwritten, or
\* cut at k bytes
TamperFile ==
    /\ phase = "written"
    /\ \E i \in 0..8, k \in 0..Len(fs_bytes) :
          \/ fs_bytes' = SubSeq(CorruptMagic(fs_bytes, i), 1, k)
          \/ \E v \in BadVersions :
                fs_bytes' =
                    SubSeq(SetVersionField(CorruptMagic(fs_bytes, i), v), 1, k)
    /\ phase' = "tampered"
    /\ UNCHANGED <<rec, img, enc, fs_exists, parse_outcome, header, dec,
                   tmp_files, caps_open, calls>>

\* one call of parse_milimg_container(file_path)
ParseMilimgContainer ==
    /\ phase \in {"encoded", "tampered"}
    /\ LET p == IF fs_exists THEN parse_milimg_container(fs_bytes)
                ELSE Raise("FileNotFoundError")
       IN /\ parse_outcome' = p.outcome
          /\ header' = p.header
    /\ UNCHANGED <<phase, rec, img, enc, fs_exists, fs_bytes, dec, tmp_files,
                   caps_open, calls>>

\* one call of decode_milimg(file_path)
DecodeMilimg ==
    /\ phase = "stored"
    /\ calls < MaxCalls
    /\ \E cvColor \in CvOutcomes, cvAlpha \in CvOutcomes :
          LET d == decode_milimg(fs_exists, fs_bytes, cvColor, cvAlpha) IN
          /\ dec' = d
          /\ tmp_files' = tmp_files + d.tmp_left
          /\ caps_open' = caps_open + d.caps_left
    /\ calls' = calls + 1
    /\ UNCHANGED <<phase, rec, img, enc, fs_exists, fs_bytes, parse_outcome,
                   header>>

Next == EncodeMilimg \/ ParseMilimgContainer

NextCodec == AssembleRecord \/ TamperFile \/ ParseMilimgContainer

Spec == Init /\ [][Next]_vars

SpecCodec == InitCodec /\ [][NextCodec]_vars

\* decode_milimg on the file of any valid record
NextDecode == AssembleRecord \/ DecodeMilimg

SpecDecode == InitDecode /\ [][NextDecode]_vars

\* both scenarios: the tools on an image, and the codec on any valid record
SpecAll == (Init \/ InitCodec) /\ [][Next \/ NextCodec]_vars

----------------------------------------------------------------------------
(* Reading a file's fields off its bytes, for the properties below.        *)

Pow256(e) == IF e = 0 THEN 1 ELSE IF e = 1 THEN 256
             ELSE IF e = 2 THEN 65536 ELSE 16777216

\* bytes off+1 .. off+k hold value, most significant byte first
FieldIs(bytes, off, k, value) ==
    /\ Len(bytes) >= off + k
    /\ \A j \in 1..k :
          bytes[off + j] =
              IF k - j >= 4 THEN 0 ELSE (value \div Pow256(k - j)) % 256

\* the value of the k-byte big-endian field at offset off
FieldAt(bytes, off, k) == UnpackBE(SubSeq(bytes, off + 1, off + k))

IsPrefix(a, b) == Len(a) <= Len(b) /\ a = SubSeq(b, 1, Len(a))

Parsed == parse_outcome # "none"

----------------------------------------------------------------------------
(* C1: round trip.  Whenever parse_milimg_container has read the file the  *)
(* assembly step wrote for a valid record, it returned a MilimgHeader      *)
(* equal to that record field for field: version, width, height, the       *)
(* color payload bytes, and the alpha payload (absent, or its bytes).      *)
C1_RoundTrip ==
    (Parsed /\ fs_bytes = Serialize(rec)) =>
        /\ parse_outcome = "returned"
        /\ header.version = rec.version
        /\ header.width = rec.width
        /\ header.height = rec.height
        /\ header.color_payload = rec.color_payload
        /\ header.alpha_present = rec.alpha_present
        /\ header.alpha_payload = rec.alpha_payload

C1_Witness ==
    /\ parse_outcome = "returned"
    /\ fs_bytes = Serialize(rec)
    /\ rec.version = 1
    /\ rec.width = 258
    /\ rec.height = 65536
    /\ Len(rec.color_payload) = 5
    /\ Len(rec.alpha_payload) = 3
    /\ header = rec

(* C2: truncation.  Whenever parse_milimg_container has read a file that   *)
(* is the written stream cut strictly before its end, it raised and        *)
(* returned no record; on the whole stream it returned one.                *)
C2_Truncation ==
    /\ (Parsed /\ IsPrefix(fs_bytes, Serialize(rec))
          /\ Len(fs_bytes) < Len(Serialize(rec)))
        => parse_outcome # "returned"
    /\ (Parsed /\ fs_bytes = Serialize(rec)) => parse_outcome = "returned"

(* C3: magic rejection.  Whenever parse_milimg_container has read a file   *)
(* whose first 8 bytes are not Milimg00 (a shorter or empty file too), it  *)
(* raised the invalid-magic error and nothing else, and returned no        *)
(* header, whatever follows the first 8 bytes.                             *)
C3_MagicRejection ==
    (Parsed /\ fs_exists /\ SubSeq(fs_bytes, 1, Min(8, Len(fs_bytes))) # Magic)
        => (parse_outcome = "invalid magic number" /\ header = NoHeader)

\* a bad magic in front of a version field that is itself unsupported
C3_Witness ==
    /\ parse_outcome = "invalid magic number"
    /\ Len(fs_bytes) >= 28
    /\ SubSeq(fs_bytes, 1, 7) = SubSeq(Magic, 1, 7)
    /\ FieldAt(fs_bytes, 8, 4) = 2

(* C4: version rejection.  Whenever parse_milimg_container has read a      *)
(* file that starts with the magic and whose 4-byte big-endian version     *)
(* field is neither 0 nor 1, it raised the unsupported-version error and   *)
(* returned no header, also when the file ends right after the version     *)
(* field (the version is checked before width or height is read).          *)
C4_VersionRejection ==
    (Parsed /\ Len(fs_bytes) >= 12 /\ SubSeq(fs_bytes, 1, 8) = Magic
       /\ FieldAt(fs_bytes, 8, 4) \notin {0, 1})
        => (parse_outcome = "unsupported version" /\ header = NoHeader)

\* an otherwise well-formed stream whose version field is 256
C4_Witness ==
    /\ parse_outcome = "unsupported version"
    /\ fs_bytes = SetVersionField(Serialize(rec), 256)
    /\ rec.version = 1
    /\ Len(rec.alpha_payload) = 3

\* the alpha section of a whole file: an 8-byte length after the color
\* payload, then that many bytes, then the end of the file
HasAlphaSection(bytes) ==
    LET n == FieldAt(bytes, 20, 8) IN
    /\ Len(bytes) >= 36 + n
    /\ Len(bytes) = 36 + n + FieldAt(bytes, 28 + n, 8)

EndsAfterColor(bytes) == Len(bytes) = 28 + FieldAt(bytes, 20, 8)

(* C5: version/alpha coupling.  Every MilimgHeader parse_milimg_container  *)
(* returned has version 0 without an alpha payload or version 1 with one   *)
(* (possibly empty); every file a successful encode_milimg wrote has       *)
(* version field 0 and ends after the color payload, or version field 1    *)
(* and an alpha section; and a file a failed call left never holds another  *)
(* version value, nor bytes after the color payload under version 0.       *)
C5_VersionAlphaCoupling ==
    /\ parse_outcome = "returned" =>
          /\ header.version \in {0, 1}
          /\ header.alpha_present <=> header.version = 1
    /\ enc.status = "ok" =>
          /\ FieldAt(fs_bytes, 8, 4) \in {0, 1}
          /\ FieldAt(fs_bytes, 8, 4) = 0 => EndsAfterColor(fs_bytes)
          /\ FieldAt(fs_bytes, 8, 4) = 1 => HasAlphaSection(fs_bytes)
    /\ (enc.opened /\ Len(fs_bytes) >= 12) =>
          FieldAt(fs_bytes, 8, 4) \in {0, 1}
    /\ (enc.opened /\ Len(fs_bytes) >= 28 /\ FieldAt(fs_bytes, 8, 4) = 0) =>
          Len(fs_bytes) <= 28 + FieldAt(fs_bytes, 20, 8)

\* a version-1 file written by encode_milimg and parsed back, its alpha
\* payload present and empty
C5_Witness ==
    /\ enc.status = "ok"
    /\ enc.version = 1
    /\ parse_outcome = "returned"
    /\ header.version = 1
    /\ header.alpha_present
    /\ Len(header.alpha_payload) = 0

(* C6: binary layout.  The file the assembly step wrote is, in order and   *)
(* with nothing between: Milimg00, version, width and height as 4 bytes    *)
(* big-endian each, N as 8 bytes big-endian, the N color bytes and, for    *)
(* version 1 only, M as 8 bytes big-endian and the M alpha bytes; it is    *)
(* 28 + N bytes long for version 0 and 36 + N + M for version 1.           *)
C6_BinaryLayout ==
    phase = "written" =>
        LET N == Len(rec.color_payload)
            M == Len(rec.alpha_payload)
        IN /\ SubSeq(fs_bytes, 1, 8) = Magic
           /\ FieldIs(fs_bytes, 8, 4, rec.version)
           /\ FieldIs(fs_bytes, 12, 4, rec.width)
           /\ FieldIs(fs_bytes, 16, 4, rec.height)
           /\ FieldIs(fs_bytes, 20, 8, N)
           /\ SubSeq(fs_bytes, 29, 28 + N) = rec.color_payload
           /\ rec.version = 0 => Len(fs_bytes) = 28 + N
           /\ rec.version = 1 =>
                 /\ FieldIs(fs_bytes, 28 + N, 8, M)
                 /\ SubSeq(fs_bytes, 37 + N, 36 + N + M) = rec.alpha_payload
                 /\ Len(fs_bytes) = 36 + N + M

\* scenario C of the specification: N = 5, M = 3, 44 bytes
C6_Witness ==
    /\ phase = "written"
    /\ rec.version = 1
    /\ rec.width = 258
    /\ Len(rec.color_payload) = 5
    /\ Len(rec.alpha_payload) = 3
    /\ Len(fs_bytes) = 44

(* C7: failure leaves nothing behind.  When encode_milimg has failed       *)
(* (loading, a codec call, open or a write raised), no file exists at the  *)
(* output path; when parse_milimg_container has raised, it returned no     *)
(* header.                                                                 *)
C7_FailureLeavesNothing ==
    /\ enc.status = "failed" => ~fs_exists
    /\ (Parsed /\ parse_outcome # "returned") => header = NoHeader

(* C8: version decision.  Once encode_milimg has probed the image, the     *)
(* version it chose is 1 exactly when some pixel of the RGBA image has     *)
(* alpha below 255; the file a successful call wrote carries that version  *)
(* and has an alpha section exactly in that case; with every pixel opaque  *)
(* no alpha payload is encoded or written.                                 *)
C8_VersionDecision ==
    LET transparent == \E i \in 1..Len(img.alpha) : img.alpha[i] < 255 IN
    /\ enc.probed => (enc.version = 1 <=> transparent)
    /\ enc.probed => (enc.use_alpha <=> transparent)
    /\ (enc.probed /\ ~transparent) => ~enc.alpha_encoded
    /\ enc.status = "ok" =>
          /\ FieldAt(fs_bytes, 8, 4) = (IF transparent THEN 1 ELSE 0)
          /\ transparent => (enc.alpha_encoded /\ HasAlphaSection(fs_bytes))
          /\ ~transparent => EndsAfterColor(fs_bytes)

\* the only pixel that is not opaque has alpha 254
C8_Witness ==
    /\ enc.status = "ok"
    /\ enc.version = 1
    /\ img.alpha = <<255, 254>>
    /\ HasAlphaSection(fs_bytes)

\* the container decode_milimg read, when it parses
Container == parse_milimg_container(fs_bytes)

Decoded == dec.outcome # "idle" /\ fs_exists /\ Container.outcome = "returned"

(* C9: decode fallback.  For a container that parses, decode_milimg        *)
(* raises nothing: it returns None exactly when the color payload is       *)
(* empty or its decode gave no frame, and then the alpha payload is not    *)
(* decoded; otherwise it returns an RGBA image, with the decoded alpha     *)
(* exactly when version is 1, the alpha payload is not empty and its       *)
(* decode gave a frame, and fully opaque in every other case.              *)
C9_DecodeFallback ==
    Decoded =>
        /\ dec.outcome \in {"None", "image"}
        /\ dec.outcome = "None" <=>
              (Len(Container.header.color_payload) = 0 \/ ~dec.color_frame)
        /\ dec.outcome = "None" => ~dec.alpha_called
        /\ dec.outcome = "image" =>
              /\ dec.alpha \in {"decoded", "opaque"}
              /\ dec.alpha = "decoded" <=>
                    /\ Container.header.version = 1
                    /\ Len(Container.header.alpha_payload) > 0
                    /\ dec.alpha_frame

(* C10: temporary-file cleanup.  After any sequence of decode_milimg       *)
(* calls no temporary file made by decode_av1_frame_with_opencv is left    *)
(* and no capture is unreleased, whichever way each decode ended; and a    *)
(* call on an empty color payload returns None without making a            *)
(* temporary file.                                                         *)
C10_TempFileCleanup ==
    /\ tmp_files = 0
    /\ caps_open = 0
    /\ (Decoded /\ Len(Container.header.color_payload) = 0) =>
          (dec.outcome = "None" /\ dec.color_called /\ dec.tmp_made = 0)

====
